---- MODULE Spec2Model ----
(***************************************************************************)
(* Model of src/app.js: the WhatsApp menu bot.  The state is the in-memory *)
(* `sessions` Map and the async POST handlers that are suspended at an     *)
(* outbound send.  A handler body is the sequence of its effects (session  *)
(* writes and sends); it runs synchronously up to and including the next   *)
(* send, where `await` suspends it until the send returns.                 *)
(***************************************************************************)
EXTENDS Integers, Sequences, FiniteSets, TLC

VARIABLES sessions, handlers, last

vars == <<sessions, handlers, last>>

----------------------------------------------------------------------------
(* Bounds of the model *)

\* Number of POST handlers that may be suspended at a send at the same time.
MaxInFlight == 2

----------------------------------------------------------------------------
(* JavaScript values *)

\* `undefined`: a missing Map entry, a missing property.
Undefined == [undefined |-> TRUE]

\* `null`, the step of the customer session.
Null == "null"

\* `undefined` where the code expects a string (no text body).  Strings are
\* sequences of one-character strings, so this is none of them.
UndefinedText == <<"undefined">>

\* A non-string text body (e.g. a number), on which .trim is not a function.
NumberBody == <<"number">>

\* Strings the code inspects are sequences of one-character strings.
Whitespace == {" ", "\t", "\n"}

UpperChars == <<"A","B","C","D","E","F","G","H","I","J","K","L","M",
                "N","O","P","Q","R","S","T","U","V","W","X","Y","Z">>

LowerChars == <<"a","b","c","d","e","f","g","h","i","j","k","l","m",
                "n","o","p","q","r","s","t","u","v","w","x","y","z">>

ToLowerChar(c) ==
    IF \E i \in 1..Len(UpperChars) : UpperChars[i] = c
    THEN LowerChars[CHOOSE i \in 1..Len(UpperChars) : UpperChars[i] = c]
    ELSE c

\* String.prototype.toLowerCase
toLowerCase(s) == [i \in 1..Len(s) |-> ToLowerChar(s[i])]

RECURSIVE TrimStart(_)
TrimStart(s) ==
    IF s # <<>> /\ Head(s) \in Whitespace THEN TrimStart(Tail(s)) ELSE s

RECURSIVE TrimEnd(_)
TrimEnd(s) ==
    IF s # <<>> /\ s[Len(s)] \in Whitespace
    THEN TrimEnd(SubSeq(s, 1, Len(s) - 1))
    ELSE s

\* String.prototype.trim
trim(s) == TrimEnd(TrimStart(s))

\* (messageText || '')
OrEmpty(text) == IF text = UndefinedText THEN <<>> ELSE text

\* /^[^\s@]+@[^\s@]+\.[^\s@]+$/.test(s): one "@", no whitespace, a non-empty
\* local part, and after the "@" a "." with a character on each side.
EmailRegexTest(s) ==
    \E i \in 1..Len(s) :
        /\ s[i] = "@"
        /\ i > 1
        /\ \A k \in 1..Len(s) : s[k] \notin Whitespace /\ (s[k] = "@" => k = i)
        /\ \E j \in (i + 2)..(Len(s) - 1) : s[j] = "."

----------------------------------------------------------------------------
(* String literals of the source *)

sMenu == <<"m","e","n","u">>
s1 == <<"1">>
s2 == <<"2">>
s3 == <<"3">>
s0 == <<"0">>

YesTokens == { <<"y","e","s">>, <<"y">>, <<"y","e","a","h">>, <<"y","e","p">>, s1 }

NoTokens == { <<"n","o">>, <<"n">>, <<"n","o","p","e">>, s0, s2 }

tCustomer == <<"C","u","s","t","o","m","e","r">>
tZimStudent == <<"Z","I","M"," ","S","t","u","d","e","n","t">>
tAwanachi == <<"A","w","a","n","a","c","h","i">>
tYes == <<"Y","e","s">>
tNo == <<"N","o">>
tOption == <<"O","p","t","i","o","n">>

\* WhatsApp constraint on a button title (src/app.js:60).
TitleMax == 20

CustomerGreeting == "Thank you for considering our services. How can we serve you today?"
AskFirstName == "What is your first name?"
RetryFirstName == "Please provide your first name:"
AskLastName == "What is your last name?"
RetryLastName == "Please provide your last name:"
AskEmail == "What is your email address?"
RetryEmail == "Please provide a valid email address:"
AskLastSitting == "Did you write exams in the last sitting? Yes/No"
Escalated == "Your issue has been escalated. Please give us some time."
Prioritising == "We are prioritising the students that wrote exams in the last sitting; however, please give us some time and you will receive an email with a link to activate your account when it is created."
MenuHint == "Type \"menu\" to start over or choose another option any time."
AskActive == "Do you have an active subscription? Yes/No"
AskAwanachiEmail == "Great. What is your email address?"
AskHelp == "How can we help you?"
RetryHelp == "Please tell us how we can help you:"
ThanksSubscription == "Thanks! We will review your subscription details and follow up shortly."
ThanksDetails == "Thank you for the details. We will get back to you shortly."
MenuBody == "Hi! Choose an option:"

----------------------------------------------------------------------------
(* Effects of a handler body, in program order *)

AckOp == [op |-> "ack"]
SetOp(updates) == [op |-> "set", updates |-> updates]
ClearOp == [op |-> "clear"]
SendOp(payload) == [op |-> "send", payload |-> payload]
ThrowOp == [op |-> "throw"]
LogOp == [op |-> "log"]

----------------------------------------------------------------------------
(* Helpers: WhatsApp senders *)

\* The request sendWhatsApp posts; awaiting it suspends the caller.
sendWhatsApp(to, payload) == <<SendOp([to |-> to] @@ payload)>>

sendText(to, text) ==
    sendWhatsApp(to, [type |-> "text", body |-> text, buttons |-> <<>>])

RECURSIVE CollapseWs(_)
CollapseWs(s) ==
    IF s = <<>> THEN <<>>
    ELSE IF Head(s) \in Whitespace
         THEN <<" ">> \o CollapseWs(TrimStart(s))
         ELSE <<Head(s)>> \o CollapseWs(Tail(s))

safeTitle(s) ==
    IF s = UndefinedText \/ s = <<>> THEN tOption
    ELSE LET c == CollapseWs(trim(s))
         IN  SubSeq(c, 1, IF Len(c) < TitleMax THEN Len(c) ELSE TitleMax)

ReplyButton(id, title) == [id |-> id, title |-> title]

sendMenu(to) ==
    LET b1 == safeTitle(tCustomer)
        b2 == safeTitle(tZimStudent)
        b3 == safeTitle(tAwanachi)
    IN  sendWhatsApp(to, [type |-> "interactive", body |-> MenuBody,
                          buttons |-> << ReplyButton("opt_customer", b1),
                                         ReplyButton("opt_zim", b2),
                                         ReplyButton("opt_awanachi", b3) >>])

sendYesNo(to, idYes, idNo, promptText) ==
    sendWhatsApp(to, [type |-> "interactive", body |-> promptText,
                      buttons |-> << ReplyButton(idYes, safeTitle(tYes)),
                                     ReplyButton(idNo, safeTitle(tNo)) >>])

----------------------------------------------------------------------------
(* Flow helpers *)

\* sessions.get(from)
get(S, from) == IF from \in DOMAIN S THEN S[from] ELSE Undefined

\* setSession with the spread written the other way round: the fields of the
\* stored session win over the updates.
setSession_SpreadSwapped(S, from, updates) ==
    LET current == IF get(S, from) = Undefined THEN <<>> ELSE S[from]
        next == current @@ updates
    IN  (from :> next) @@ S

setSession(S, from, updates) ==
    LET current == IF get(S, from) = Undefined THEN <<>> ELSE S[from]
        next == updates @@ current
    IN  (from :> next) @@ S

\* clearSession emptying the Map.
clearSession_All(S, from) == <<>>

clearSession(S, from) == [u \in DOMAIN S \ {from} |-> S[u]]

\* parseYesNo without toLowerCase.
parseYesNo_CaseSensitive(text) ==
    IF text = UndefinedText \/ text = <<>> THEN Null
    ELSE LET t == trim(text)
         IN  IF t \in YesTokens THEN "true"
             ELSE IF t \in NoTokens THEN "false"
             ELSE Null

\* TRUE / FALSE / Null
parseYesNo(text) ==
    IF text = UndefinedText \/ text = <<>> THEN Null
    ELSE LET t == toLowerCase(trim(text))
         IN  IF t \in YesTokens THEN "true"
             ELSE IF t \in NoTokens THEN "false"
             ELSE Null

----------------------------------------------------------------------------
(* Flows *)

EmptyData == <<>>

startCustomerFlow(from) ==
    <<SetOp([mode |-> "customer", step |-> Null, data |-> EmptyData])>>
    \o sendText(from, CustomerGreeting)

startZimFlow(from) ==
    <<SetOp([mode |-> "zim", step |-> "zim_first_name", data |-> EmptyData])>>
    \o sendText(from, AskFirstName)

\* case 'zim_first_name' without the test of an empty answer.
ZimFirstName_NoCheck(sess, from, messageText) ==
    LET first == trim(OrEmpty(messageText)) IN
    <<SetOp([step |-> "zim_last_name",
             data |-> ("first_name" :> first) @@ sess.data])>>
    \o sendText(from, AskLastName)

\* case 'zim_first_name'
ZimFirstName(sess, from, messageText) ==
    LET first == trim(OrEmpty(messageText)) IN
    IF first = <<>> THEN sendText(from, RetryFirstName)
    ELSE <<SetOp([step |-> "zim_last_name",
                  data |-> ("first_name" :> first) @@ sess.data])>>
         \o sendText(from, AskLastName)

\* case 'zim_last_name' storing { last_name } without spreading sess.data.
ZimLastName_NoSpread(sess, from, messageText) ==
    LET lastName == trim(OrEmpty(messageText)) IN
    IF lastName = <<>> THEN sendText(from, RetryLastName)
    ELSE <<SetOp([step |-> "zim_email", data |-> ("last_name" :> lastName)])>>
         \o sendText(from, AskEmail)

\* case 'zim_last_name'
ZimLastName(sess, from, messageText) ==
    LET lastName == trim(OrEmpty(messageText)) IN
    IF lastName = <<>> THEN sendText(from, RetryLastName)
    ELSE <<SetOp([step |-> "zim_email",
                  data |-> ("last_name" :> lastName) @@ sess.data])>>
         \o sendText(from, AskEmail)

\* case 'zim_email' that only checks that the answer is not empty.
ZimEmail_NoRegex(sess, from, messageText) ==
    LET email == trim(OrEmpty(messageText))
        ok == email # <<>>
    IN  IF ~ok THEN sendText(from, RetryEmail)
        ELSE <<SetOp([step |-> "zim_last_sitting",
                      data |-> ("email" :> email) @@ sess.data])>>
             \o sendYesNo(from, "zim_exam_yes", "zim_exam_no", AskLastSitting)

\* case 'zim_email' storing the address without the new step.
ZimEmail_NoAdvance(sess, from, messageText) ==
    LET email == trim(OrEmpty(messageText))
        ok == EmailRegexTest(email)
    IN  IF ~ok THEN sendText(from, RetryEmail)
        ELSE <<SetOp([data |-> ("email" :> email) @@ sess.data])>>
             \o sendYesNo(from, "zim_exam_yes", "zim_exam_no", AskLastSitting)

\* case 'zim_email'
ZimEmail(sess, from, messageText) ==
    LET email == trim(OrEmpty(messageText))
        ok == EmailRegexTest(email)
    IN  IF ~ok THEN sendText(from, RetryEmail)
        ELSE <<SetOp([step |-> "zim_last_sitting",
                      data |-> ("email" :> email) @@ sess.data])>>
             \o sendYesNo(from, "zim_exam_yes", "zim_exam_no", AskLastSitting)

\* case 'zim_last_sitting' without the clearSession calls.
ZimLastSitting_NoClear(sess, from, messageText) ==
    LET yn == parseYesNo(messageText) IN
    IF yn = "true"
    THEN sendText(from, Escalated) \o sendText(from, MenuHint)
    ELSE IF yn = "false"
    THEN sendText(from, Prioritising) \o sendText(from, MenuHint)
    ELSE sendYesNo(from, "zim_exam_yes", "zim_exam_no", AskLastSitting)

\* case 'zim_last_sitting'
ZimLastSitting(sess, from, messageText) ==
    LET yn == parseYesNo(messageText) IN
    IF yn = "true"
    THEN sendText(from, Escalated) \o <<ClearOp>> \o sendText(from, MenuHint)
    ELSE IF yn = "false"
    THEN sendText(from, Prioritising) \o <<ClearOp>> \o sendText(from, MenuHint)
    ELSE sendYesNo(from, "zim_exam_yes", "zim_exam_no", AskLastSitting)

handleZimStep(S, from, messageText) ==
    LET sess == get(S, from) IN
    IF sess = Undefined THEN startZimFlow(from)
    ELSE CASE sess.step = "zim_first_name" -> ZimFirstName(sess, from, messageText)
           [] sess.step = "zim_last_name" -> ZimLastName(sess, from, messageText)
           [] sess.step = "zim_email" -> ZimEmail(sess, from, messageText)
           [] sess.step = "zim_last_sitting" -> ZimLastSitting(sess, from, messageText)
           [] OTHER -> startZimFlow(from)

startAwanachiFlow(from) ==
    <<SetOp([mode |-> "awanachi", step |-> "awanachi_active", data |-> EmptyData])>>
    \o sendYesNo(from, "awanachi_active_yes", "awanachi_active_no", AskActive)

\* case 'awanachi_active'
AwanachiActive(sess, from, messageText) ==
    LET yn == parseYesNo(messageText) IN
    IF yn = "true"
    THEN <<SetOp([step |-> "awanachi_email"])>> \o sendText(from, AskAwanachiEmail)
    ELSE IF yn = "false"
    THEN <<SetOp([step |-> "awanachi_help"])>> \o sendText(from, AskHelp)
    ELSE sendYesNo(from, "awanachi_active_yes", "awanachi_active_no", AskActive)

\* case 'awanachi_email'
AwanachiEmail(sess, from, messageText) ==
    LET email == trim(OrEmpty(messageText))
        ok == EmailRegexTest(email)
    IN  IF ~ok THEN sendText(from, RetryEmail)
        ELSE <<ClearOp>> \o sendText(from, ThanksSubscription)
             \o sendText(from, MenuHint)

\* case 'awanachi_help'
AwanachiHelp(sess, from, messageText) ==
    LET helpText == trim(OrEmpty(messageText)) IN
    IF helpText = <<>> THEN sendText(from, RetryHelp)
    ELSE <<ClearOp>> \o sendText(from, ThanksDetails) \o sendText(from, MenuHint)

handleAwanachiStep(S, from, messageText) ==
    LET sess == get(S, from) IN
    IF sess = Undefined THEN startAwanachiFlow(from)
    ELSE CASE sess.step = "awanachi_active" -> AwanachiActive(sess, from, messageText)
           [] sess.step = "awanachi_email" -> AwanachiEmail(sess, from, messageText)
           [] sess.step = "awanachi_help" -> AwanachiHelp(sess, from, messageText)
           [] OTHER -> startAwanachiFlow(from)

----------------------------------------------------------------------------
(* Webhook receiver (POST /) *)

\* A falsy `from` (undefined or the empty string) and an undefined button id.
NoFrom == ""
NoId == ""

MenuButtonIds == {"opt_customer", "opt_zim", "opt_awanachi"}

FlowButtonIds ==
    {"zim_exam_yes", "zim_exam_no", "awanachi_active_yes", "awanachi_active_no"}

\* The guard without the check of the sender.
Malformed_NoFromCheck(ev) == ~ev.hasMessage

\* if (!message || !from) return;
Malformed(ev) == ~ev.hasMessage \/ ev.from = NoFrom

\* The reset shortcut without sessions.delete.
ResetBranch_NoDelete(from) == sendMenu(from)

\* "menu" always shows the menu and resets the pending step.
ResetBranch(from) == <<ClearOp>> \o sendMenu(from)

\* message.type === 'interactive' && message.interactive?.type === 'button_reply'
IsButtonReply(ev) == ev.type = "interactive" /\ ev.itype = "button_reply"

\* ZIM Yes/No buttons
ZimExamButton(from, id) ==
    IF id = "zim_exam_yes"
    THEN sendText(from, Escalated) \o <<ClearOp>> \o sendText(from, MenuHint)
    ELSE sendText(from, Prioritising) \o <<ClearOp>> \o sendText(from, MenuHint)

\* The Awanachi Yes/No buttons updating the step alone, as the typed answer
\* does.
AwanachiActiveButton_StepOnly(from, id) ==
    IF id = "awanachi_active_yes"
    THEN <<SetOp([step |-> "awanachi_email"])>> \o sendText(from, AskAwanachiEmail)
    ELSE <<SetOp([step |-> "awanachi_help"])>> \o sendText(from, AskHelp)

\* Awanachi Yes/No buttons
AwanachiActiveButton(from, id) ==
    IF id = "awanachi_active_yes"
    THEN <<SetOp([mode |-> "awanachi", step |-> "awanachi_email", data |-> EmptyData])>>
         \o sendText(from, AskAwanachiEmail)
    ELSE <<SetOp([mode |-> "awanachi", step |-> "awanachi_help", data |-> EmptyData])>>
         \o sendText(from, AskHelp)

\* The button branches; <<>> when none of them returns.
ButtonBranch(from, id) ==
    CASE id = "opt_customer" -> startCustomerFlow(from)
      [] id = "opt_zim" -> startZimFlow(from)
      [] id = "opt_awanachi" -> startAwanachiFlow(from)
      [] id \in {"zim_exam_yes", "zim_exam_no"} -> ZimExamButton(from, id)
      [] id \in {"awanachi_active_yes", "awanachi_active_no"} ->
         AwanachiActiveButton(from, id)
      [] OTHER -> <<>>

\* The numeric shortcuts tried whether or not a session exists.
FirstContact_Always(S, from) == TRUE

\* let sess = sessions.get(from); if (!sess) ...
FirstContact(S, from) == get(S, from) = Undefined

\* The shortcuts "2" and "3" bound to each other's flow.
NoSessionBranch_Swapped(from, txtLower) ==
    IF txtLower = s1 THEN startCustomerFlow(from)
    ELSE IF txtLower = s2 THEN startAwanachiFlow(from)
    ELSE IF txtLower = s3 THEN startZimFlow(from)
    ELSE sendMenu(from)

\* First contact: numeric shortcuts 1/2/3, otherwise the menu.
NoSessionBranch(from, txtLower) ==
    IF txtLower = s1 THEN startCustomerFlow(from)
    ELSE IF txtLower = s2 THEN startZimFlow(from)
    ELSE IF txtLower = s3 THEN startAwanachiFlow(from)
    ELSE sendMenu(from)

\* Routing of a text to the flow of the active mode.
ModeBranch(S, from, txt) ==
    LET sess == get(S, from) IN
    IF sess.mode = "customer" THEN sendText(from, CustomerGreeting)
    ELSE IF sess.mode = "zim" THEN handleZimStep(S, from, txt)
    ELSE IF sess.mode = "awanachi" THEN handleAwanachiStep(S, from, txt)
    ELSE sendMenu(from)

\* The try block of app.post('/'), as the effects it performs in order.
TryBody(S, ev) ==
    LET from == ev.from IN
    IF Malformed(ev) THEN <<>>
    ELSE IF ev.body = NumberBody THEN <<ThrowOp>>
    ELSE
      LET txt == IF ev.body = UndefinedText THEN UndefinedText ELSE trim(ev.body)
          txtLower == IF txt = UndefinedText THEN UndefinedText ELSE toLowerCase(txt)
          button == IF IsButtonReply(ev) THEN ButtonBranch(from, ev.id) ELSE <<>>
      IN  IF txtLower = sMenu THEN ResetBranch(from)
          ELSE IF button # <<>> THEN button
          ELSE IF FirstContact(S, from) THEN NoSessionBranch(from, txtLower)
          ELSE ModeBranch(S, from, txt)

\* The acknowledgement issued once the event has been handled.
PostHandler_AckLast(S, ev) == TryBody(S, ev) \o <<AckOp>>

\* app.post('/'): acknowledge, then the try block.
PostHandler(S, ev) == <<AckOp>> \o TryBody(S, ev)

----------------------------------------------------------------------------
(* Execution of a handler: synchronous up to the next awaited send *)

Exec(S, from, o) ==
    CASE o.op = "set" -> setSession(S, from, o.updates)
      [] o.op = "clear" -> clearSession(S, from)
      [] OTHER -> S

\* Runs ops until a send has been issued (the handler then awaits it), the
\* ops are exhausted, or an exception reaches the catch block, which logs it.
RECURSIVE Run(_, _, _, _)
Run(S, from, ops, trace) ==
    IF ops = <<>> THEN [S |-> S, trace |-> trace, cont |-> <<>>, st |-> "done"]
    ELSE LET o == Head(ops) IN
         CASE o.op = "send" ->
              [S |-> S, trace |-> Append(trace, o), cont |-> Tail(ops), st |-> "await"]
           [] o.op = "throw" ->
              [S |-> S, trace |-> Append(trace, LogOp), cont |-> <<>>, st |-> "done"]
           [] OTHER -> Run(Exec(S, from, o), from, Tail(ops), Append(trace, o))

\* A failed send whose exception leaves sendWhatsApp: it reaches the catch
\* block of the handler.
SendFailed_Rethrow(cont) == <<ThrowOp>>

\* The rest of a handler whose awaited send failed: sendWhatsApp catches the
\* error and logs it, and the handler goes on.
SendFailed(cont) == <<LogOp>> \o cont

----------------------------------------------------------------------------
(* Inbound events *)

TextEvent(u, b) ==
    [hasMessage |-> TRUE, from |-> u, type |-> "text", body |-> b,
     itype |-> "", id |-> NoId]

ButtonEvent(u, id) ==
    [hasMessage |-> TRUE, from |-> u, type |-> "interactive", body |-> UndefinedText,
     itype |-> "button_reply", id |-> id]

\* A media message: neither a text body nor a button reply.
MediaEvent(u) ==
    [hasMessage |-> TRUE, from |-> u, type |-> "image", body |-> UndefinedText,
     itype |-> "", id |-> NoId]

\* A status notification: value.messages is absent.
NoMessageEvent ==
    [hasMessage |-> FALSE, from |-> NoFrom, type |-> "", body |-> UndefinedText,
     itype |-> "", id |-> NoId]

\* A message without a sender.
NoFromEvent ==
    [hasMessage |-> TRUE, from |-> NoFrom, type |-> "text", body |-> <<"h","i">>,
     itype |-> "", id |-> NoId]

tEmpty == <<>>
tBlank == <<" ">>
tMenu == <<" ","M","e","n","u">>
tEmail == <<"a","@","b",".","c">>

Texts == { tEmpty, tBlank, tMenu, s1, s2, s3, tEmail }

ButtonIds == MenuButtonIds \cup FlowButtonIds \cup {"other_id"}

\* The first sender's conversation is explored in full.
EventsOfFirst ==
    { TextEvent("u1", b) : b \in Texts \cup {NumberBody} }
    \cup { ButtonEvent("u1", id) : id \in ButtonIds }
    \cup { MediaEvent("u1") }

\* A second sender, whose events interleave with the first's: it starts a
\* flow and resets.
EventsOfSecond == { ButtonEvent("u2", "opt_awanachi"), TextEvent("u2", tMenu) }

Events == EventsOfFirst \cup EventsOfSecond \cup { NoMessageEvent, NoFromEvent }

----------------------------------------------------------------------------
(* Answers, valid answers and terminal branches *)

IsText(ev) ==
    /\ ~Malformed(ev)
    /\ ev.type = "text"
    /\ ev.body # UndefinedText
    /\ ev.body # NumberBody

IsReset(ev) == IsText(ev) /\ toLowerCase(trim(ev.body)) = sMenu

\* A text routed to the flow that owns the session.
IsAnswer(ev) == IsText(ev) /\ ~IsReset(ev)

IsButton(ev, ids) == ~Malformed(ev) /\ IsButtonReply(ev) /\ ev.id \in ids

IsYes(b) == toLowerCase(trim(b)) \in YesTokens
IsNo(b) == toLowerCase(trim(b)) \in NoTokens

AtStep(sess, mode, step) == sess # Undefined /\ sess.mode = mode /\ sess.step = step

TerminalCase(sess, ev) ==
    \/ /\ AtStep(sess, "zim", "zim_last_sitting")
       /\ \/ IsAnswer(ev) /\ (IsYes(ev.body) \/ IsNo(ev.body))
          \/ IsButton(ev, {"zim_exam_yes", "zim_exam_no"})
    \/ AtStep(sess, "awanachi", "awanachi_email")
       /\ IsAnswer(ev) /\ EmailRegexTest(trim(ev.body))
    \/ AtStep(sess, "awanachi", "awanachi_help")
       /\ IsAnswer(ev) /\ trim(ev.body) # <<>>

----------------------------------------------------------------------------
(* State machine *)

\* sessions: the Map of src/app.js:31, a function on the senders that have
\*   an entry.
\* handlers: the POST handlers suspended at an awaited send, in order of
\*   arrival.  cont is the rest of the handler body.  Three fields record
\*   history: ov, that another event of the same sender was handled while
\*   this one was suspended; term, that the event took a terminal branch of
\*   a flow; dirty, that the handler has yet to write the sender's session
\*   and another handler has written it since this one read it.
\* last: the step that led to the current state: the event (of a POST), the
\*   sender's session before the step (pre), the effects the handler had
\*   to perform when the step began (ops), the effects the step performed
\*   (trace), the effects the handler still has to perform (cont), whether
\*   the handler returned in this step (done), and the handler's history.

Overlaps(from) == \E i \in 1..Len(handlers) : handlers[i].from = from

HasWrite(ops) == \E i \in 1..Len(ops) : ops[i].op \in {"set", "clear"}

\* The history of the handlers of `from` other than handler i, after a step
\* of another handler of `from`: arrived tells that the step is a new POST,
\* wrote that it wrote the session.
Note(hs, from, i, arrived, wrote) ==
    [j \in 1..Len(hs) |->
        IF hs[j].from = from /\ j # i
        THEN [hs[j] EXCEPT !.ov = @ \/ arrived,
                           !.dirty = @ \/ (wrote /\ HasWrite(hs[j].cont))]
        ELSE hs[j]]

RemoveAt(hs, i) ==
    [j \in 1..(Len(hs) - 1) |-> IF j < i THEN hs[j] ELSE hs[j + 1]]

Init ==
    /\ sessions = <<>>
    /\ handlers = <<>>
    /\ last = Undefined

\* An inbound POST: runs the handler up to its first awaited send.
Post(ev) ==
    /\ Len(handlers) < MaxInFlight
    /\ LET from == ev.from
           pre == get(sessions, from)
           r == Run(sessions, from, PostHandler(sessions, ev), <<>>)
           ov == Overlaps(from)
           term == TerminalCase(pre, ev)
           others == Note(handlers, from, 0, TRUE, HasWrite(r.trace))
       IN  /\ sessions' = r.S
           /\ handlers' =
                 IF r.st = "await"
                 THEN Append(others, [from |-> from, cont |-> r.cont, ov |-> ov,
                                      term |-> term, dirty |-> FALSE])
                 ELSE others
           /\ last' = [act |-> "post", from |-> from, ev |-> ev, ok |-> TRUE,
                       pre |-> pre, ops |-> PostHandler(sessions, ev),
                       trace |-> r.trace, cont |-> r.cont,
                       done |-> r.st = "done", ov |-> ov, term |-> term,
                       dirty |-> FALSE]

\* The send a handler awaits returns (ok) or fails (~ok: sendWhatsApp logs
\* the error); the handler continues to its next send or to its end.
Resume(i, ok) ==
    /\ i \in 1..Len(handlers)
    /\ LET h == handlers[i]
           r == Run(sessions, h.from, IF ok THEN h.cont ELSE SendFailed(h.cont), <<>>)
           others == Note(handlers, h.from, i, FALSE, HasWrite(r.trace))
       IN  /\ sessions' = r.S
           /\ handlers' =
                 IF r.st = "await"
                 THEN [others EXCEPT ![i] = [@ EXCEPT !.cont = r.cont,
                                                      !.dirty = FALSE]]
                 ELSE RemoveAt(others, i)
           /\ last' = [act |-> "resume", from |-> h.from, ev |-> Undefined,
                       ok |-> ok, pre |-> get(sessions, h.from), ops |-> h.cont,
                       trace |-> r.trace, cont |-> r.cont,
                       done |-> r.st = "done", ov |-> h.ov, term |-> h.term,
                       dirty |-> h.dirty]

Next ==
    \/ \E ev \in Events : Post(ev)
    \/ \E i \in 1..MaxInFlight, ok \in BOOLEAN : Resume(i, ok)

Spec == Init /\ [][Next]_vars

----------------------------------------------------------------------------
(* Vocabulary of the properties *)

IsSend(o) == o.op = "send"

\* The messages a sequence of effects sends, in order.
Sent(ops) ==
    LET sel == SelectSeq(ops, IsSend)
    IN  [i \in 1..Len(sel) |-> sel[i].payload]

Logged(ops) == \E i \in 1..Len(ops) : ops[i].op = "log"

StartsFlow(ops) ==
    \E i \in 1..Len(ops) : ops[i].op = "set" /\ "mode" \in DOMAIN ops[i].updates

TextMsg(to, body) == [to |-> to, type |-> "text", body |-> body, buttons |-> <<>>]

YesNoMsg(to, idYes, idNo, body) ==
    [to |-> to, type |-> "interactive", body |-> body,
     buttons |-> << [id |-> idYes, title |-> tYes], [id |-> idNo, title |-> tNo] >>]

MenuMsg(to) ==
    [to |-> to, type |-> "interactive", body |-> MenuBody,
     buttons |-> << [id |-> "opt_customer", title |-> tCustomer],
                    [id |-> "opt_zim", title |-> tZimStudent],
                    [id |-> "opt_awanachi", title |-> tAwanachi] >>]

Posted == last # Undefined /\ last.act = "post"

\* The sender's session after the step.
Now == get(sessions, last.from)

\* The step sent exactly m and the handler sends nothing more.
OnlyMessage(m) == Sent(last.trace) = <<m>> /\ Sent(last.cont) = <<>>

FlowSteps ==
    { <<"zim", "zim_first_name">>, <<"zim", "zim_last_name">>,
      <<"zim", "zim_email">>, <<"zim", "zim_last_sitting">>,
      <<"awanachi", "awanachi_active">>, <<"awanachi", "awanachi_email">>,
      <<"awanachi", "awanachi_help">> }

\* The validator of each step, on the text of an answer.
Valid(step, b) ==
    CASE step \in {"zim_first_name", "zim_last_name", "awanachi_help"} ->
         trim(b) # <<>>
      [] step \in {"zim_email", "awanachi_email"} -> EmailRegexTest(trim(b))
      [] step \in {"zim_last_sitting", "awanachi_active"} -> IsYes(b) \/ IsNo(b)

Reprompt(to, step) ==
    CASE step = "zim_first_name" -> TextMsg(to, RetryFirstName)
      [] step = "zim_last_name" -> TextMsg(to, RetryLastName)
      [] step = "zim_email" -> TextMsg(to, RetryEmail)
      [] step = "zim_last_sitting" ->
         YesNoMsg(to, "zim_exam_yes", "zim_exam_no", AskLastSitting)
      [] step = "awanachi_active" ->
         YesNoMsg(to, "awanachi_active_yes", "awanachi_active_no", AskActive)
      [] step = "awanachi_email" -> TextMsg(to, RetryEmail)
      [] step = "awanachi_help" -> TextMsg(to, RetryHelp)

\* The menu options in the order of the menu buttons.
OptionIds == <<"opt_customer", "opt_zim", "opt_awanachi">>

Shortcuts == <<s1, s2, s3>>

StartSession(k) ==
    CASE k = 1 -> [mode |-> "customer", step |-> Null, data |-> <<>>]
      [] k = 2 -> [mode |-> "zim", step |-> "zim_first_name", data |-> <<>>]
      [] k = 3 -> [mode |-> "awanachi", step |-> "awanachi_active", data |-> <<>>]

OpeningPrompt(to, k) ==
    CASE k = 1 -> TextMsg(to, CustomerGreeting)
      [] k = 2 -> TextMsg(to, AskFirstName)
      [] k = 3 -> YesNoMsg(to, "awanachi_active_yes", "awanachi_active_no", AskActive)

----------------------------------------------------------------------------
(* C1 *)

C1_Case ==
    /\ Posted
    /\ IsAnswer(last.ev)
    /\ \E ms \in FlowSteps :
          AtStep(last.pre, ms[1], ms[2]) /\ ~Valid(ms[2], last.ev.body)

\* C1: at every step of a scripted flow, a text answer (a text other than
\* the reset keyword, which never reaches the flow) that fails the step's
\* validator leaves the sender's session (step and data) as it was, and the
\* handler sends exactly one message, the re-prompt of that step.
C1_InvalidAnswerReprompts ==
    C1_Case =>
        /\ Now = last.pre
        /\ OnlyMessage(Reprompt(last.from, last.pre.step))
        /\ ~HasWrite(last.cont)

\* A text that is no e-mail address was answered at zim_email.
C1_Witness == C1_Case /\ last.pre.step = "zim_email" /\ last.ev.body = s3

----------------------------------------------------------------------------
(* C2 *)

ZimField(step) ==
    CASE step = "zim_first_name" -> "first_name"
      [] step = "zim_last_name" -> "last_name"
      [] step = "zim_email" -> "email"

ZimNext(step) ==
    CASE step = "zim_first_name" -> "zim_last_name"
      [] step = "zim_last_name" -> "zim_email"
      [] step = "zim_email" -> "zim_last_sitting"

C2_ZimCase ==
    /\ Posted
    /\ IsAnswer(last.ev)
    /\ \E st \in {"zim_first_name", "zim_last_name", "zim_email"} :
          AtStep(last.pre, "zim", st) /\ Valid(st, last.ev.body)

C2_SaysYes ==
    \/ IsAnswer(last.ev) /\ IsYes(last.ev.body)
    \/ IsButton(last.ev, {"awanachi_active_yes"})

C2_SaysNo ==
    \/ IsAnswer(last.ev) /\ IsNo(last.ev.body)
    \/ IsButton(last.ev, {"awanachi_active_no"})

C2_AwanachiCase ==
    /\ Posted
    /\ AtStep(last.pre, "awanachi", "awanachi_active")
    /\ (C2_SaysYes \/ C2_SaysNo)

C2_NextStep ==
    IF last.pre.mode = "zim" THEN ZimNext(last.pre.step)
    ELSE IF C2_SaysYes THEN "awanachi_email" ELSE "awanachi_help"

\* data of the session after the step is data before it plus one new key.
C2_OneNewKey ==
    \E k \in DOMAIN Now.data \ DOMAIN last.pre.data :
        /\ DOMAIN Now.data = DOMAIN last.pre.data \cup {k}
        /\ \A j \in DOMAIN last.pre.data : Now.data[j] = last.pre.data[j]

\* C2 as claimed: at zim_first_name, zim_last_name, zim_email and
\* awanachi_active a valid answer advances step to the next step of the flow
\* and writes exactly one new key into data.
C2_Original ==
    (C2_ZimCase \/ C2_AwanachiCase) =>
        /\ Now # Undefined
        /\ Now.mode = last.pre.mode
        /\ Now.step = C2_NextStep
        /\ C2_OneNewKey

\* C2 (amended): at zim_first_name, zim_last_name and zim_email a valid
\* answer advances step to the next step of the flow and writes exactly one
\* new key (first_name, last_name, email) holding the trimmed answer, the
\* other keys kept; at awanachi_active a yes or no answer (text or button)
\* advances step to awanachi_email or awanachi_help and writes no key.
C2_ValidAnswerAdvances ==
    /\ C2_ZimCase =>
          /\ Now # Undefined
          /\ Now.mode = "zim"
          /\ Now.step = ZimNext(last.pre.step)
          /\ C2_OneNewKey
          /\ ZimField(last.pre.step) \in DOMAIN Now.data \ DOMAIN last.pre.data
          /\ Now.data[ZimField(last.pre.step)] = trim(last.ev.body)
    /\ C2_AwanachiCase =>
          /\ Now # Undefined
          /\ Now.mode = "awanachi"
          /\ Now.step = C2_NextStep
          /\ Now.data = last.pre.data

\* A last name was accepted after a first name had been stored.
C2_Witness ==
    /\ C2_ZimCase
    /\ last.pre.step = "zim_last_name"
    /\ DOMAIN Now.data = {"first_name", "last_name"}

----------------------------------------------------------------------------
(* C3 *)

\* C3: the read-modify-write of a sender's session is a critical section:
\* no handler writes the session (set or delete) after another handler has
\* written it since the first one read it, so that no write of one event is
\* lost or undone by the other.
C3_ReadModifyWriteAtomic ==
    ~(last # Undefined /\ last.dirty /\ HasWrite(last.trace))

----------------------------------------------------------------------------
(* C4 *)

C4_Case == Posted /\ IsReset(last.ev)

\* C4: from every session state, a text whose trimmed lower-cased body is
\* "menu" leaves the sender without a session, sends the menu and nothing
\* else, starts no flow, and the handler does not reach its catch block;
\* in particular when no session exists, as after a previous "menu".
C4_ResetShowsMenu ==
    C4_Case =>
        /\ Now = Undefined
        /\ OnlyMessage(MenuMsg(last.from))
        /\ ~HasWrite(last.cont)
        /\ ~StartsFlow(last.trace)
        /\ ~Logged(last.trace)

\* "menu" was sent by a sender in the middle of the ZIM flow.
C4_Witness == C4_Case /\ AtStep(last.pre, "zim", "zim_last_sitting")

----------------------------------------------------------------------------
(* C5 *)

----------------------------------------------------------------------------
(* C6 *)

C6_Case ==
    /\ Posted
    /\ last.pre = Undefined
    /\ IsButton(last.ev, ButtonIds \ MenuButtonIds)

\* C6: with no session, a button reply whose id is no menu option (the ids
\* zim_exam_yes, zim_exam_no, awanachi_active_yes, awanachi_active_no
\* included) is answered by the menu alone, creates no session, and the
\* handler does not reach its catch block.
C6_UnknownButtonShowsMenu ==
    C6_Case =>
        /\ OnlyMessage(MenuMsg(last.from))
        /\ ~HasWrite(last.cont)
        /\ Now = Undefined
        /\ ~Logged(last.trace)

----------------------------------------------------------------------------
(* C7 *)

C7_Shortcut(k) ==
    /\ Posted
    /\ last.pre = Undefined
    /\ IsText(last.ev)
    /\ toLowerCase(trim(last.ev.body)) = Shortcuts[k]

C7_Button(k) ==
    /\ Posted
    /\ last.pre = Undefined
    /\ IsButton(last.ev, {OptionIds[k]})

\* C7: for a sender without a session, the text "1", "2", "3" and the
\* first, second, third menu button give the same session and the same
\* messages: both give the session and the opening prompt of that option.
C7_ShortcutEqualsButton ==
    \A k \in 1..3 :
        (C7_Shortcut(k) \/ C7_Button(k)) =>
            /\ Now = StartSession(k)
            /\ OnlyMessage(OpeningPrompt(last.from, k))
            /\ ~HasWrite(last.cont)

\* The text "2" was sent by a sender without a session.
C7_Witness == C7_Shortcut(2)

----------------------------------------------------------------------------
(* C8 *)

C8_Case ==
    /\ Posted
    /\ last.pre # Undefined
    /\ IsText(last.ev)
    /\ toLowerCase(trim(last.ev.body)) \in {s1, s2, s3}

\* The messages of each flow to a sender who is in it.
C8_FlowMessages(mode) ==
    CASE mode = "customer" -> {CustomerGreeting}
      [] mode = "zim" ->
         {RetryFirstName, AskLastName, RetryLastName, AskEmail, RetryEmail,
          AskLastSitting, Escalated, Prioritising}
      [] mode = "awanachi" ->
         {AskActive, AskAwanachiEmail, AskHelp, RetryEmail, RetryHelp,
          ThanksSubscription, ThanksDetails}

\* C8: for a sender who has a session, the text "1", "2" or "3" starts or
\* restarts no flow: no session write sets a mode, a session that remains
\* keeps its mode, it is the initial session of a flow only if it was so
\* before, and the message sent is one of the flow that owns the session.
C8_ShortcutOnlyWithoutSession ==
    C8_Case =>
        /\ ~StartsFlow(last.trace) /\ ~StartsFlow(last.cont)
        /\ Now # Undefined => Now.mode = last.pre.mode
        /\ (\E k \in 1..3 : Now = StartSession(k)) => Now = last.pre
        /\ Len(Sent(last.trace)) = 1
        /\ Sent(last.trace)[1].body \in C8_FlowMessages(last.pre.mode)

\* The text "2" was sent by a sender who is in the Awanachi flow.
C8_Witness == C8_Case /\ last.ev.body = s2 /\ last.pre.mode = "awanachi"

----------------------------------------------------------------------------
(* C9 *)

C9_Case(k) == Posted /\ IsButton(last.ev, {OptionIds[k]})

\* C9: a button reply with the id of a menu option, in any session state,
\* sets the sender's session to the mode of that option with its initial
\* step and empty data, and the handler sends the opening prompt of that
\* flow and nothing else.
C9_MenuButtonRestartsFlow ==
    \A k \in 1..3 :
        C9_Case(k) =>
            /\ Now = StartSession(k)
            /\ OnlyMessage(OpeningPrompt(last.from, k))
            /\ ~HasWrite(last.cont)

\* The ZIM button was pressed by a sender whose ZIM session held data.
C9_Witness ==
    /\ C9_Case(2)
    /\ AtStep(last.pre, "zim", "zim_last_sitting")
    /\ Now.data = <<>>

----------------------------------------------------------------------------
(* C10 *)

\* Nothing but the acknowledgement happened, and the handler returned.
C10_Dropped ==
    /\ last.trace = <<AckOp>>
    /\ last.done
    /\ Now = last.pre

C10_NoSenderOrMessage == ~last.ev.hasMessage \/ last.ev.from = NoFrom

\* A message with a sender and neither a text body nor a button reply.
C10_NoBody ==
    /\ ~C10_NoSenderOrMessage
    /\ last.ev.body = UndefinedText
    /\ ~IsButtonReply(last.ev)

\* C10 as claimed: an event without a sender, without a message, or whose
\* message has neither a text body nor a button reply is dropped: no
\* message is sent and no session is created, changed or deleted.
C10_Original ==
    (Posted /\ (C10_NoSenderOrMessage \/ C10_NoBody)) => C10_Dropped

\* C10 (amended): an event without a sender or without a message is
\* dropped: no message is sent and no session is created, changed or
\* deleted.  A message that has a sender but neither a text body nor a
\* button reply is not dropped: it is answered by exactly one message (the
\* menu when the sender has no session) and leaves the session as it was.
C10_MalformedDropped ==
    /\ (Posted /\ C10_NoSenderOrMessage) => C10_Dropped
    /\ (Posted /\ C10_NoBody) =>
          /\ Len(Sent(last.trace)) = 1
          /\ Sent(last.cont) = <<>>
          /\ ~HasWrite(last.cont)
          /\ Now = last.pre
          /\ last.pre = Undefined => Sent(last.trace) = <<MenuMsg(last.from)>>

\* A message without a sender was dropped while a session was stored.
C10_Witness ==
    /\ Posted
    /\ last.ev = NoFromEvent
    /\ DOMAIN sessions # {}

----------------------------------------------------------------------------
(* C11 *)

C11_Case ==
    /\ Posted
    /\ AtStep(last.pre, "customer", Null)
    /\ ~IsReset(last.ev)
    /\ ~IsButton(last.ev, MenuButtonIds)

\* C11: for a sender whose session is in mode customer, every event other
\* than the reset keyword and a menu button leaves the session as it was
\* (mode customer, step null), now and when the handler goes on, and every
\* text in that mode is answered by exactly one text, the greeting.
C11_CustomerPersists ==
    C11_Case =>
        /\ Now = last.pre
        /\ ~HasWrite(last.cont)
        /\ IsText(last.ev) =>
              OnlyMessage(TextMsg(last.from, CustomerGreeting))

----------------------------------------------------------------------------
(* C12 *)

IsAck(o) == o.op = "ack"

\* C12: the acknowledgement is the first effect of the handler of every
\* POST, malformed ones included: it precedes every session write and every
\* send of the event, it is issued once, and it is issued also when the
\* handler then throws or a send then fails.
C12_AckFirst ==
    /\ Posted =>
          /\ last.trace # <<>>
          /\ last.trace[1] = AckOp
          /\ SelectSeq(Tail(last.trace), IsAck) = <<>>
          /\ SelectSeq(last.cont, IsAck) = <<>>
    /\ (last # Undefined /\ last.act = "resume") =>
          SelectSeq(last.trace \o last.cont, IsAck) = <<>>

\* A POST was acknowledged and its handler then threw.
C12_Witness == Posted /\ last.trace = <<AckOp, LogOp>>

----------------------------------------------------------------------------
(* C13 *)

C13_Case == last # Undefined /\ last.act = "resume" /\ ~last.ok

\* What the step does when the awaited send succeeds, on the sender's
\* session as it was before the step.
C13_HadItSucceeded ==
    LET S0 == IF last.pre = Undefined THEN <<>> ELSE (last.from :> last.pre)
    IN  Run(S0, last.from, last.ops, <<>>)

\* C13: when the send a handler awaits fails, the failure is logged once
\* and the handler goes on exactly as when the send succeeds: the same
\* session results, the same later sends are issued (the failed one is not
\* issued again), the same effects remain to be performed, and the handler
\* does not end in its catch block.
C13_SendFailureSwallowed ==
    C13_Case =>
        /\ Now = get(C13_HadItSucceeded.S, last.from)
        /\ last.trace = <<LogOp>> \o C13_HadItSucceeded.trace
        /\ last.cont = C13_HadItSucceeded.cont
        /\ last.done = (C13_HadItSucceeded.st = "done")

\* The first send of a terminal branch failed: the session was deleted and
\* the second message was sent all the same.
C13_Witness ==
    /\ C13_Case
    /\ last.term
    /\ last.pre # Undefined
    /\ Now = Undefined
    /\ Sent(last.trace) = <<TextMsg(last.from, MenuHint)>>

----------------------------------------------------------------------------
(* C14 *)

StepsOfMode(mode) ==
    CASE mode = "customer" -> {Null}
      [] mode = "zim" ->
         {"zim_first_name", "zim_last_name", "zim_email", "zim_last_sitting"}
      [] mode = "awanachi" ->
         {"awanachi_active", "awanachi_email", "awanachi_help"}
      [] OTHER -> {}

\* C14: every stored session has the fields mode, step and data and a step
\* of its mode; and a sender who has a session is never answered by the
\* menu of an unknown-step default branch: with a session, the menu is sent
\* for the reset keyword alone.
C14_StepBelongsToMode ==
    /\ \A u \in DOMAIN sessions :
          /\ DOMAIN sessions[u] = {"mode", "step", "data"}
          /\ sessions[u].step \in StepsOfMode(sessions[u].mode)
    /\ (Posted /\ last.pre # Undefined /\ ~IsReset(last.ev)) =>
          \A i \in 1..Len(last.ops) :
              last.ops[i].op = "send" => last.ops[i].payload # MenuMsg(last.from)

\* An Awanachi button was pressed by a sender in the ZIM flow: the session
\* changed mode and step together.
C14_Witness ==
    /\ Posted
    /\ IsButton(last.ev, {"awanachi_active_yes"})
    /\ AtStep(last.pre, "zim", "zim_email")
    /\ AtStep(Now, "awanachi", "awanachi_email")

----------------------------------------------------------------------------
(* C15 *)

Senders == { ev.from : ev \in Events } \ {NoFrom}

\* C15: a step of a handler of one sender leaves the session of every
\* other sender as it was (not created, not changed, not deleted), and
\* every message the handler sends or has yet to send is addressed to its
\* own sender.
C15_OtherSendersUntouched ==
    [][ /\ \A u \in Senders \ {last'.from} : get(sessions', u) = get(sessions, u)
        /\ \A m \in { Sent(last'.ops)[i] : i \in 1..Len(Sent(last'.ops)) } :
              m.to = last'.from ]_vars

\* The first sender's session was written while the second sender had a
\* session and a suspended handler.
C15_Witness ==
    /\ last # Undefined
    /\ last.from = "u1"
    /\ HasWrite(last.trace)
    /\ "u2" \in DOMAIN sessions
    /\ \E i \in 1..Len(handlers) : handlers[i].from = "u2"

----------------------------------------------------------------------------
(* C16 *)

C16_YesSpellings ==
    { <<"y","e","s">>, <<"Y","E","S">>, <<" ","Y","e","s"," ">>,
      <<"y">>, <<"Y">>, <<"y","e","a","h">>, <<"Y","e","a","h"," ">>,
      <<"y","e","p">>, <<"\t","Y","E","P">>, <<"1">>, <<" ","1"," ">> }

C16_NoSpellings ==
    { <<"n","o">>, <<"N","O">>, <<" ","N","o"," ">>, <<"n">>, <<"N">>,
      <<"n","o","p","e">>, <<"N","o","p","e","\n">>, <<"0">>, <<" ","0">>,
      <<"2">>, <<"2"," ">> }

C16_Steps == { <<"zim", "zim_last_sitting">>, <<"awanachi", "awanachi_active">> }

C16_YesId(step) ==
    IF step = "zim_last_sitting" THEN "zim_exam_yes" ELSE "awanachi_active_yes"

C16_NoId(step) ==
    IF step = "zim_last_sitting" THEN "zim_exam_no" ELSE "awanachi_active_no"

\* The sessions after all of ops have been performed.
RECURSIVE C16_Final(_, _, _)
C16_Final(S, from, ops) ==
    IF ops = <<>> THEN S
    ELSE C16_Final(Exec(S, from, Head(ops)), from, Tail(ops))

\* What handling ev in S gives: the sender's session when the handler first
\* awaits a send and when it has returned, and the messages it sends.
C16_Outcome(S, ev) ==
    LET ops == PostHandler(S, ev) IN
    [ first |-> get(Run(S, ev.from, ops, <<>>).S, ev.from),
      final |-> get(C16_Final(S, ev.from, ops), ev.from),
      sent |-> Sent(ops) ]

\* The sessions in which the sender of the last step had session sess.
C16_Before == IF last.pre = Undefined THEN <<>> ELSE (last.from :> last.pre)

C16_Typed(yes) ==
    /\ Posted
    /\ IsAnswer(last.ev)
    /\ IF yes THEN IsYes(last.ev.body) ELSE IsNo(last.ev.body)
    /\ \E ms \in C16_Steps : AtStep(last.pre, ms[1], ms[2])

\* The last step has brought its sender's session to a yes/no step.
C16_Entered ==
    /\ Posted
    /\ HasWrite(last.trace)
    /\ \E ms \in C16_Steps : AtStep(Now, ms[1], ms[2])

\* C16: at zim_last_sitting and at awanachi_active, a typed yes token in
\* any case and with surrounding whitespace gives the same session and the
\* same messages as the yes button of the step, a typed no token the same as
\* its no button: for every session a step has brought to such a step and
\* every spelling, and for every yes or no answer that was handled.
C16_TypedEqualsButton ==
    /\ C16_Entered =>
          LET S == (last.from :> Now)
              yesButton == C16_Outcome(S, ButtonEvent(last.from, C16_YesId(Now.step)))
              noButton == C16_Outcome(S, ButtonEvent(last.from, C16_NoId(Now.step)))
          IN  /\ \A b \in C16_YesSpellings :
                    C16_Outcome(S, TextEvent(last.from, b)) = yesButton
              /\ \A b \in C16_NoSpellings :
                    C16_Outcome(S, TextEvent(last.from, b)) = noButton
    /\ \A yes \in BOOLEAN :
          C16_Typed(yes) =>
              LET id == IF yes THEN C16_YesId(last.pre.step)
                        ELSE C16_NoId(last.pre.step)
                  button == C16_Outcome(C16_Before, ButtonEvent(last.from, id))
              IN  /\ Now = button.first
                  /\ Sent(last.ops) = button.sent
                  /\ get(C16_Final(C16_Before, last.from, last.ops), last.from)
                        = button.final

\* "no" was typed at awanachi_active.
C16_Witness ==
    /\ C16_Typed(FALSE)
    /\ AtStep(last.pre, "awanachi", "awanachi_active")
    /\ AtStep(Now, "awanachi", "awanachi_help")

----------------------------------------------------------------------------
(* C17 *)

\* The handler of the last POST sends the escalation or the prioritisation
\* message.
C17_TerminalOutcome ==
    /\ Posted
    /\ \E i \in 1..Len(Sent(last.ops)) :
          Sent(last.ops)[i].body \in {Escalated, Prioritising}

\* C17: the escalation or prioritisation message followed by the deletion
\* of the session is produced only for a sender whose session is in mode
\* zim at step zim_last_sitting, with first_name, last_name and email
\* collected.
C17_TerminalOnlyAtLastSitting ==
    C17_TerminalOutcome =>
        /\ AtStep(last.pre, "zim", "zim_last_sitting")
        /\ DOMAIN last.pre.data = {"first_name", "last_name", "email"}

----------------------------------------------------------------------------
(* C18 *)

C18_FieldsAt(step) ==
    CASE step = "zim_first_name" -> {}
      [] step = "zim_last_name" -> {"first_name"}
      [] step = "zim_email" -> {"first_name", "last_name"}
      [] step = "zim_last_sitting" -> {"first_name", "last_name", "email"}

\* local@domain.tld without whitespace.
C18_EmailShape(v) ==
    /\ \A k \in 1..Len(v) : v[k] \notin Whitespace
    /\ Cardinality({ k \in 1..Len(v) : v[k] = "@" }) = 1
    /\ \E i \in 2..Len(v) :
          /\ v[i] = "@"
          /\ \E j \in (i + 2)..(Len(v) - 1) : v[j] = "."

\* C18: every stored session in mode zim holds exactly the fields of the
\* steps before its step (none at zim_first_name, first_name at
\* zim_last_name, then last_name, then email), every stored value is a
\* non-empty text, and the stored email has the shape local@domain.tld
\* with no whitespace.
C18_ZimDataMatchesStep ==
    \A u \in DOMAIN sessions :
        sessions[u].mode = "zim" =>
            /\ sessions[u].step \in StepsOfMode("zim")
            /\ DOMAIN sessions[u].data = C18_FieldsAt(sessions[u].step)
            /\ \A k \in DOMAIN sessions[u].data :
                  /\ sessions[u].data[k] # <<>>
                  /\ sessions[u].data[k] # UndefinedText
            /\ "email" \in DOMAIN sessions[u].data =>
                  C18_EmailShape(sessions[u].data["email"])

\* A session at zim_last_sitting holds the three fields.
C18_Witness ==
    \E u \in DOMAIN sessions :
        /\ AtStep(sessions[u], "zim", "zim_last_sitting")
        /\ sessions[u].data["email"] = tEmail
        /\ sessions[u].data["first_name"] # sessions[u].data["last_name"]

----------------------------------------------------------------------------
(* C19 *)

\* A handler resumes after a later event of its sender has written the
\* session, and that session is stored.
C19_Case ==
    /\ last # Undefined
    /\ last.act = "resume"
    /\ last.dirty
    /\ last.pre # Undefined

\* C19: the session a later event of a sender has written is still stored
\* after a handler of an earlier event of that sender has gone on: the
\* delayed clearSession of a terminal branch does not delete it.
C19_LaterSessionSurvives == C19_Case => Now = last.pre

----------------------------------------------------------------------------
(* C20 *)

\* ev is a valid answer to the step of the ZIM session sess.
ZimValidAnswer(sess, ev) ==
    \/ IsAnswer(ev) /\ Valid(sess.step, ev.body)
    \/ sess.step = "zim_last_sitting"
       /\ IsButton(ev, {"zim_exam_yes", "zim_exam_no"})

\* A POST of a sender who waits for the handler of the previous event to
\* return and who, once in the ZIM flow, submits valid answers only.
LivePost(ev) ==
    /\ ~Overlaps(ev.from)
    /\ LET sess == get(sessions, ev.from)
       IN  (sess # Undefined /\ sess.mode = "zim") => ZimValidAnswer(sess, ev)
    /\ Post(ev)

LiveNext ==
    \/ \E ev \in Events : LivePost(ev)
    \/ \E i \in 1..MaxInFlight, ok \in BOOLEAN : Resume(i, ok)

\* The first sender can submit an event: LivePost is enabled for one of
\* its events.
CanSubmit == ~Overlaps("u1") /\ Len(handlers) < MaxInFlight

\* Every awaited send returns or fails in the end (axios gives up after its
\* timeout), and the first sender keeps submitting events: weak fairness of
\* its POSTs, with the enabling condition written out.
LiveSpec ==
    /\ Init
    /\ [][LiveNext]_vars
    /\ \A i \in 1..MaxInFlight : WF_vars(\E ok \in BOOLEAN : Resume(i, ok))
    /\ \/ []<>(~CanSubmit)
       \/ []<><<\E ev \in EventsOfFirst : LivePost(ev)>>_vars

C20_InZim ==
    /\ get(sessions, "u1") # Undefined
    /\ sessions["u1"].mode = "zim"

C20_TerminalReached ==
    /\ last # Undefined
    /\ last.from = "u1"
    /\ last.term
    /\ last.done
    /\ get(sessions, "u1") = Undefined

\* C20: when every awaited send returns or fails in the end, every handler
\* that has started returns, and a sender in the ZIM flow who keeps
\* submitting valid answers reaches a terminal branch whose handler returns
\* with the session absent.
C20_ZimFlowTerminates ==
    /\ \A u \in Senders : (Overlaps(u) ~> ~Overlaps(u))
    /\ C20_InZim ~> C20_TerminalReached

\* The first sender's terminal handler returned while a handler of the
\* second sender was suspended.
C20_Witness ==
    /\ C20_TerminalReached
    /\ last.act = "resume"
    /\ last.pre = Undefined
    /\ Overlaps("u2")

====
